---- MODULE Spec2Model ----
(***************************************************************************)
(* Model of the CaseAccessRequest view of request.service.ts: the React    *)
(* state of the component, the render snapshot its handlers close over,    *)
(* the load and approve operations with their awaited calls, and the       *)
(* filter / pagination derivation.                                         *)
(*                                                                         *)
(* Text that the code inspects (search term, names, case ids) is a         *)
(* sequence of one-character strings; text that is only stored and shown   *)
(* (ids, error messages) is a string.  An optional value is <<>> when it   *)
(* is absent (undefined / null) and <<v>> when it is present.              *)
(***************************************************************************)
EXTENDS Integers, Sequences, FiniteSets, TLC

VARIABLES
    requests,     \* useState<CaseRequest[]>([])
    isLoading,    \* useState(true)
    error,        \* useState("")
    approving,    \* useState<Record<string, boolean>>({})
    searchTerm,   \* useState("")
    currentPage,  \* useState(1)
    pageSize,     \* useState(6)
    rendered,     \* the state the committed render (and its closures) saw
    loadPc,       \* position of loadRequests: "idle", "awaiting", "ok", "failed"
    loadResult,   \* what the fetch settled with: its payload or its error
    inflight,     \* per request id: assignLawyer calls awaited and not settled
    issued,       \* assignLawyer calls issued so far
    stale,        \* handlers and continuations run since the last commit
    lastOp        \* the handler or continuation that ran last

vars == <<requests, isLoading, error, approving, searchTerm, currentPage,
          pageSize, rendered, loadPc, loadResult, inflight, issued, stale, lastOp>>

----------------------------------------------------------------------------
(* Bounds of the model *)

\* length of the longest list the fetch returns
MaxFetch == 7
\* assignLawyer calls issued in one run
MaxCalls == 2
\* length of the longest list the paginated view starts from
MaxList == 13
\* handlers and continuations that may run between two commits of a render
MaxStale == 2

----------------------------------------------------------------------------
(* Text helpers: String.prototype.toLowerCase, trim, includes.  The letters  *)
(* below are the upper-case letters that occur in the texts of the model.    *)

LowerChar(c) ==
    CASE c = "A" -> "a"
      [] c = "B" -> "b"
      [] c = "C" -> "c"
      [] c = "L" -> "l"
      [] c = "O" -> "o"
      [] c = "X" -> "x"
      [] OTHER -> c

toLowerCase(s) == [i \in 1..Len(s) |-> LowerChar(s[i])]

IsSpace(c) == c = " "

RECURSIVE trimStart(_)
trimStart(s) ==
    IF s # <<>> /\ IsSpace(Head(s)) THEN trimStart(Tail(s)) ELSE s

RECURSIVE trimEnd(_)
trimEnd(s) ==
    IF s # <<>> /\ IsSpace(s[Len(s)]) THEN trimEnd(SubSeq(s, 1, Len(s) - 1)) ELSE s

trim(s) == trimEnd(trimStart(s))

\* String.prototype.startsWith in place of includes
includes_StartsWith(s, q) == Len(q) <= Len(s) /\ SubSeq(s, 1, Len(q)) = q

includes(s, q) ==
    \E i \in 0..(Len(s) - Len(q)) : SubSeq(s, i + 1, i + Len(q)) = q

\* v || d for an optional text: absent and "" are both falsy
OrText(v, d) == IF v # <<>> /\ v[1] # <<>> THEN v[1] ELSE d

\* e.message || fallback for an optional message string
OrMessage(m, fallback) == IF m # <<>> /\ m[1] # "" THEN m[1] ELSE fallback

\* data || [] for the fetched payload
OrEmpty(data) == IF data # <<>> THEN data[1] ELSE <<>>

----------------------------------------------------------------------------
(* The data the backend may answer with *)

Digit(k) == ToString(k)

Digits(i) == IF i < 10 THEN <<Digit(i)>> ELSE <<Digit(i \div 10), Digit(i % 10)>>

IdOf(i) == ToString(i)

CaseRequest(i) ==
    [ id            |-> IdOf(i),
      caseId        |-> <<"C">> \o Digits(i),
      lawyerAddress |-> IF i % 4 = 0 THEN <<>> ELSE << <<"0", "x", "A">> \o Digits(i) >>,
      requestedAt   |-> 1000 * i,
      status        |-> "PENDING",
      lawyerName    |-> IF i % 3 = 1 THEN << <<"A", "l">> >>
                        ELSE IF i % 3 = 2 THEN <<>>
                        ELSE << <<"B", "o", "b">> >>,
      lawyerEmail   |-> IF i % 2 = 0 THEN << <<"a", "l", "@", "x">> >> ELSE <<>> ]

FirstRequests(n) == [i \in 1..n |-> CaseRequest(i)]

\* a payload in which two entries carry the same id
DuplicatePayload == <<CaseRequest(1), CaseRequest(2), [CaseRequest(3) EXCEPT !.id = IdOf(1)]>>

\* response.data of GET /api/court/requests: absent, or any array
FetchPayloads ==
    {<<>>} \cup {<<FirstRequests(n)>> : n \in {0, MaxFetch}} \cup {<<DuplicatePayload>>}

Ids == {IdOf(i) : i \in 1..(IF MaxFetch >= MaxList THEN MaxFetch ELSE MaxList)}

\* the optional message of a thrown ApiError
FailureMessages == {<<>>, <<"">>, <<"network down">>}

\* what the operator may type into the search box
SearchTerms == {<<>>, <<" ", "A", "L">>}

\* search terms for the filter alone: blank ones, padded and mixed-case ones,
\* ones that occur at the start, in the middle and at the end of a field, and
\* ones that occur nowhere
FilterTerms ==
    SearchTerms \cup
    { <<" ">>, <<" ", " ">>, <<"c", "1">>, <<" ", "X", "A", " ">>, <<"@", "x", " ">>,
      <<"O", "b">>, <<"z">>, <<"a", " ", "l">>, <<"b", "o", "b", "b">> }

PageSizes == {6, 8, 12}

----------------------------------------------------------------------------
(* Derived values of a render *)

Matches(r, term) ==
    LET q == toLowerCase(trim(term))
    IN  IF q = <<>> THEN TRUE
        ELSE \/ includes(toLowerCase(OrText(r.lawyerName, <<>>)), q)
             \/ includes(toLowerCase(OrText(r.lawyerEmail, <<>>)), q)
             \/ includes(toLowerCase(r.caseId), q)
             \/ includes(toLowerCase(OrText(r.lawyerAddress, <<>>)), q)

filteredRequests(reqs, term) ==
    IF Len(reqs) > 0 THEN SelectSeq(reqs, LAMBDA r : Matches(r, term)) ELSE <<>>

\* Math.floor in place of Math.ceil
Ceil_Floor(a, b) == a \div b

\* Math.ceil(a / b) for a >= 0, b > 0
Ceil(a, b) == (a + b - 1) \div b

Max(a, b) == IF a >= b THEN a ELSE b

Min(a, b) == IF a <= b THEN a ELSE b

totalPages(reqs, term, size) == Max(1, Ceil(Len(filteredRequests(reqs, term)), size))

\* Array.prototype.slice(from, to) with 0 <= from <= to
slice(s, from, to) == SubSeq(s, Min(from, Len(s)) + 1, Min(to, Len(s)))

displayedRequests(reqs, term, page, size) ==
    slice(filteredRequests(reqs, term), (page - 1) * size, (page - 1) * size + size)

\* approving[id] read as a condition: a missing key is undefined, which is falsy
IsApproving(map, id) == id \in DOMAIN map /\ map[id]

\* the update written against the render's map, { ...approving, [id]: flag },
\* instead of against the latest state
WithFlag_FromRender(map, id, flag) ==
    [k \in DOMAIN rendered.approving \cup {id} |->
        IF k = id THEN flag ELSE rendered.approving[k]]

\* (s) => ({ ...s, [id]: flag })
WithFlag(map, id, flag) ==
    [k \in DOMAIN map \cup {id} |-> IF k = id THEN flag ELSE map[k]]

----------------------------------------------------------------------------
(* State after construction: the useState initial values, first render done *)

NoFlags == [k \in {} |-> FALSE]

Snapshot(reqs, loading, err, flags, term, page, size) ==
    [ requests    |-> reqs,
      isLoading   |-> loading,
      error       |-> err,
      approving   |-> flags,
      searchTerm  |-> term,
      currentPage |-> page,
      pageSize    |-> size ]

\* the record kept of the last handler: its name, the request id it was for, the
\* page shown when it ran, the message of the failure it caught (if it caught one)
Op(name, id, m) == [name |-> name, id |-> id, page |-> currentPage, message |-> m]

Init ==
    /\ requests = <<>>
    /\ isLoading = TRUE
    /\ error = ""
    /\ approving = NoFlags
    /\ searchTerm = <<>>
    /\ currentPage = 1
    /\ pageSize = 6
    /\ rendered = Snapshot(<<>>, TRUE, "", NoFlags, <<>>, 1, 6)
    /\ loadPc = "idle"
    /\ loadResult = [kind |-> "none"]
    /\ inflight = [id \in Ids |-> 0]
    /\ issued = 0
    /\ stale = 0
    /\ lastOp = [name |-> "construct", id |-> "", page |-> 1, message |-> <<>>]

\* React commits a render of the current state; handlers now close over it
Render ==
    /\ stale > 0
    /\ rendered' = Snapshot(requests, isLoading, error, approving, searchTerm,
                            currentPage, pageSize)
    /\ stale' = 0
    /\ UNCHANGED <<requests, isLoading, error, approving, searchTerm, currentPage,
                   pageSize, loadPc, loadResult, inflight, lastOp, issued>>

\* a handler or continuation may run on the committed render although earlier
\* updates are not committed yet; MaxStale caps how many do
MayRun == stale < MaxStale

----------------------------------------------------------------------------
(* loadRequests *)

\* the payload cut down to the first page before it is stored
LoadedRequests_FirstPage(data) == SubSeq(OrEmpty(data), 1, Min(pageSize, Len(OrEmpty(data))))

\* line 52: data || []
LoadedRequests(data) == OrEmpty(data)

\* the fallback of the other call site
LoadErrorText_OtherFallback(m) == OrMessage(m, "Approval failed")

\* line 57: e.message || "Failed to load requests"
LoadErrorText(m) == OrMessage(m, "Failed to load requests")

\* the flag left as the settlement found it
FinallyLoading_Kept(loading) == loading

\* line 59: finally { setIsLoading(false) }
FinallyLoading(loading) == FALSE

\* useEffect(() => { loadRequests(); }, []) up to the await
loadRequests ==
    /\ MayRun
    /\ loadPc = "idle"
    /\ isLoading' = TRUE
    /\ loadPc' = "awaiting"
    /\ stale' = stale + 1
    /\ lastOp' = Op("loadRequests", "", <<>>)
    /\ UNCHANGED <<requests, error, approving, searchTerm, currentPage, pageSize,
                   rendered, loadResult, inflight, issued>>

\* getPendingRequests resolved with data: the try block, then finally
loadRequestsResolved ==
    \E data \in FetchPayloads :
        /\ MayRun
        /\ loadPc = "awaiting"
        /\ requests' = LoadedRequests(data)
        /\ currentPage' = 1
        /\ error' = ""
        /\ isLoading' = FinallyLoading(isLoading)
        /\ loadPc' = "ok"
        /\ loadResult' = [kind |-> "data", data |-> data]
        /\ stale' = stale + 1
        /\ lastOp' = Op("loadResolved", "", <<>>)
        /\ UNCHANGED <<approving, searchTerm, pageSize, rendered, inflight, issued>>

\* getPendingRequests rejected: the catch block, then finally
loadRequestsRejected ==
    \E m \in FailureMessages :
        /\ MayRun
        /\ loadPc = "awaiting"
        /\ error' = LoadErrorText(m)
        /\ isLoading' = FinallyLoading(isLoading)
        /\ loadPc' = "failed"
        /\ loadResult' = [kind |-> "error", message |-> m]
        /\ stale' = stale + 1
        /\ lastOp' = Op("loadRejected", "", m)
        /\ UNCHANGED <<requests, approving, searchTerm, currentPage, pageSize,
                       rendered, inflight, issued>>

----------------------------------------------------------------------------
(* handleApprove *)

\* the list (with its Approve buttons and pagination bar) is rendered
ListShown == ~rendered.isLoading /\ Len(rendered.requests) # 0

RenderedRows ==
    displayedRequests(rendered.requests, rendered.searchTerm,
                      rendered.currentPage, rendered.pageSize)

RenderedTotalPages ==
    totalPages(rendered.requests, rendered.searchTerm, rendered.pageSize)

\* line 84: the guard reads the approving map of the render the handler closes over
AlreadyApproving(id) == IsApproving(rendered.approving, id)

\* the approved entry kept with its status toggled in place
RemoveApproved_Toggled(prev, id) ==
    [k \in 1..Len(prev) |->
        IF prev[k].id = id THEN [prev[k] EXCEPT !.status = "APPROVED"] ELSE prev[k]]

\* line 90: prev.filter((r) => r.id !== req.id)
RemoveApproved(prev, id) == SelectSeq(prev, LAMBDA r : r.id # id)

ApproveErrorText(m) == OrMessage(m, "Approval failed")

\* the busy flag left set when the call settles
FlagAfterSettle_StillBusy == TRUE

\* line 95: finally { setApproving((s) => ({ ...s, [req.id]: false })) }
FlagAfterSettle == FALSE

\* a click on a row's Approve button: handleApprove(req) up to the await
handleApprove ==
    \E k \in 1..Len(RenderedRows) :
        LET req == RenderedRows[k] IN
        /\ MayRun
        /\ ListShown
        /\ ~AlreadyApproving(req.id)
        /\ issued < MaxCalls
        /\ issued' = issued + 1
        /\ approving' = WithFlag(approving, req.id, TRUE)
        /\ inflight' = [inflight EXCEPT ![req.id] = @ + 1]
        /\ stale' = stale + 1
        /\ lastOp' = Op("handleApprove", req.id, <<>>)
        /\ UNCHANGED <<requests, isLoading, error, searchTerm, currentPage,
                       pageSize, rendered, loadPc, loadResult>>

\* assignLawyer resolved: rest of the try block, then finally
assignLawyerResolved ==
    \E id \in Ids :
        /\ MayRun
        /\ inflight[id] > 0
        /\ requests' = RemoveApproved(requests, id)
        /\ approving' = WithFlag(approving, id, FlagAfterSettle)
        /\ inflight' = [inflight EXCEPT ![id] = @ - 1]
        /\ stale' = stale + 1
        /\ lastOp' = Op("assignResolved", id, <<>>)
        /\ UNCHANGED <<isLoading, error, searchTerm, currentPage, pageSize,
                       rendered, loadPc, loadResult, issued>>

\* assignLawyer rejected: the catch block, then finally
assignLawyerRejected ==
    \E id \in Ids, m \in FailureMessages :
        /\ MayRun
        /\ inflight[id] > 0
        /\ error' = ApproveErrorText(m)
        /\ approving' = WithFlag(approving, id, FlagAfterSettle)
        /\ inflight' = [inflight EXCEPT ![id] = @ - 1]
        /\ stale' = stale + 1
        /\ lastOp' = Op("assignRejected", id, m)
        /\ UNCHANGED <<requests, isLoading, searchTerm, currentPage, pageSize,
                       rendered, loadPc, loadResult, issued>>

----------------------------------------------------------------------------
(* Search box, page size select, pagination bar *)

\* the page left where it was
PageAfterSearch_Kept(page) == page

\* line 119: setCurrentPage(1)
PageAfterSearch(page) == 1

\* line 133: setCurrentPage(1)
PageAfterPageSize(page) == 1

\* onChange of the search input
searchOnChange ==
    \E value \in SearchTerms :
        /\ MayRun
        /\ value # rendered.searchTerm
        /\ searchTerm' = value
        /\ currentPage' = PageAfterSearch(currentPage)
        /\ stale' = stale + 1
        /\ lastOp' = Op("search", "", <<>>)
        /\ UNCHANGED <<requests, isLoading, error, approving, pageSize, rendered,
                       loadPc, loadResult, inflight, issued>>

\* onChange of the page size select
pageSizeOnChange ==
    \E value \in PageSizes :
        /\ MayRun
        /\ value # rendered.pageSize
        /\ pageSize' = value
        /\ currentPage' = PageAfterPageSize(currentPage)
        /\ stale' = stale + 1
        /\ lastOp' = Op("pageSize", "", <<>>)
        /\ UNCHANGED <<requests, isLoading, error, approving, searchTerm, rendered,
                       loadPc, loadResult, inflight, issued>>

\* onClick of Prev
prevOnClick ==
    /\ MayRun
    /\ ListShown
    /\ rendered.currentPage # 1
    /\ currentPage' = Max(1, currentPage - 1)
    /\ stale' = stale + 1
    /\ lastOp' = Op("prev", "", <<>>)
    /\ UNCHANGED <<requests, isLoading, error, approving, searchTerm, pageSize,
                   rendered, loadPc, loadResult, inflight, issued>>

\* onClick of a numbered page button
pageOnClick ==
    \E page \in 1..RenderedTotalPages :
        /\ MayRun
        /\ ListShown
        /\ currentPage' = page
        /\ stale' = stale + 1
        /\ lastOp' = Op("page", "", <<>>)
        /\ UNCHANGED <<requests, isLoading, error, approving, searchTerm, pageSize,
                       rendered, loadPc, loadResult, inflight, issued>>

\* onClick of Next
nextOnClick ==
    /\ MayRun
    /\ ListShown
    /\ rendered.currentPage # RenderedTotalPages
    /\ currentPage' = Min(RenderedTotalPages, currentPage + 1)
    /\ stale' = stale + 1
    /\ lastOp' = Op("next", "", <<>>)
    /\ UNCHANGED <<requests, isLoading, error, approving, searchTerm, pageSize,
                   rendered, loadPc, loadResult, inflight, issued>>

----------------------------------------------------------------------------

Next ==
    \/ Render
    \/ loadRequests
    \/ loadRequestsResolved
    \/ loadRequestsRejected
    \/ handleApprove
    \/ assignLawyerResolved
    \/ assignLawyerRejected
    \/ searchOnChange
    \/ pageSizeOnChange
    \/ prevOnClick
    \/ pageOnClick
    \/ nextOnClick

Spec == Init /\ [][Next]_vars

\* the effect runs after the mount, the fetch settles, and React commits
\* pending updates.  The effect and the continuation are not held back by
\* other handlers; MayRun disables them only where the model caps the number
\* of uncommitted updates, hence strong fairness for them.
FairSpec ==
    /\ Spec
    /\ SF_vars(loadRequests)
    /\ SF_vars(loadRequestsResolved \/ loadRequestsRejected)
    /\ WF_vars(Render)

TypeOK ==
    /\ isLoading \in BOOLEAN
    /\ error \in {"", "Failed to load requests", "Approval failed", "network down"}
    /\ searchTerm \in SearchTerms
    /\ currentPage \in Nat \ {0}
    /\ pageSize \in PageSizes
    /\ loadPc \in {"idle", "awaiting", "ok", "failed"}
    /\ \A id \in Ids : inflight[id] \in 0..MaxCalls
    /\ issued \in 0..MaxCalls
    /\ stale \in 0..MaxStale

----------------------------------------------------------------------------
(* The view once a fetch of n requests has resolved and been committed,     *)
(* driven by the search box, the page size select and the pagination bar.   *)

InitPaging ==
    \E n \in 0..MaxList :
        /\ requests = FirstRequests(n)
        /\ isLoading = FALSE
        /\ error = ""
        /\ approving = NoFlags
        /\ searchTerm = <<>>
        /\ currentPage = 1
        /\ pageSize = 6
        /\ rendered = Snapshot(FirstRequests(n), FALSE, "", NoFlags, <<>>, 1, 6)
        /\ loadPc = "ok"
        /\ loadResult = [kind |-> "data", data |-> <<FirstRequests(n)>>]
        /\ inflight = [id \in Ids |-> 0]
        /\ issued = 0
        /\ stale = 0
        /\ lastOp = [name |-> "loadResolved", id |-> "", page |-> 1, message |-> <<>>]

NextPaging ==
    \/ Render
    \/ searchOnChange
    \/ pageSizeOnChange
    \/ prevOnClick
    \/ pageOnClick
    \/ nextOnClick

SpecPaging == InitPaging /\ [][NextPaging]_vars

\* the same view with a search term already typed in and committed
InitFilter ==
    \E n \in 0..MaxList, term \in FilterTerms :
        /\ requests = FirstRequests(n)
        /\ isLoading = FALSE
        /\ error = ""
        /\ approving = NoFlags
        /\ searchTerm = term
        /\ currentPage = 1
        /\ pageSize = 6
        /\ rendered = Snapshot(FirstRequests(n), FALSE, "", NoFlags, term, 1, 6)
        /\ loadPc = "ok"
        /\ loadResult = [kind |-> "data", data |-> <<FirstRequests(n)>>]
        /\ inflight = [id \in Ids |-> 0]
        /\ issued = 0
        /\ stale = 0
        /\ lastOp = [name |-> "search", id |-> "", page |-> 1, message |-> <<>>]

SpecFilter == InitFilter /\ [][NextPaging]_vars

----------------------------------------------------------------------------
(* Vocabulary of the properties *)

IdsOf(reqs) == {reqs[k].id : k \in 1..Len(reqs)}

RemoveAt(s, k) == SubSeq(s, 1, k - 1) \o SubSeq(s, k + 1, Len(s))

Others(reqs, id) == SelectSeq(reqs, LAMBDA r : r.id # id)

\* this step is the continuation of a resolved / rejected assignLawyer call for id
ResolvedStep(id) == inflight'[id] < inflight[id] /\ lastOp'.name = "assignResolved"

RejectedStep(id) == inflight'[id] < inflight[id] /\ lastOp'.name = "assignRejected"

\* this step is handleApprove issuing a call for id
IssuedStep(id) == inflight'[id] > inflight[id]

\* what a failure with optional message m must leave in the error state
Surfaced(m, fallback) ==
    IF m = <<>> THEN fallback ELSE IF m[1] = "" THEN fallback ELSE m[1]

----------------------------------------------------------------------------
(* C1: a resolved assign call removes exactly one entry, the one with the   *)
(* request's id, and keeps the others in order; a rejected call removes     *)
(* none.  Stated as the claim states it; the code breaks it.                *)
C1_ExactlyOneRemoved ==
    [][\A id \in Ids :
          /\ ResolvedStep(id) =>
                \E k \in 1..Len(requests) :
                    requests[k].id = id /\ requests' = RemoveAt(requests, k)
          /\ RejectedStep(id) => requests' = requests]_vars

(* C2: at most one assign call is outstanding for a request id, whenever    *)
(* the second handleApprove runs.  Stated as the claim states it; the code  *)
(* breaks it.                                                               *)
C2_OneCallPerId == \A id \in Ids : inflight[id] <= 1

(* C3: the settlement of the call for id a changes no other id's busy flag  *)
(* and no other id's entries, clears a's flag, removes a's entries when it  *)
(* resolved and nothing when it was rejected; once every call has settled   *)
(* no busy flag is left set.                                                *)
C3_SettleTouchesOnlyOwnId ==
    [][\A a \in Ids :
          inflight'[a] < inflight[a] =>
              /\ \A b \in Ids \ {a} :
                    /\ (b \in DOMAIN approving') = (b \in DOMAIN approving)
                    /\ IsApproving(approving', b) = IsApproving(approving, b)
              /\ Others(requests', a) = Others(requests, a)
              /\ ResolvedStep(a) => a \notin IdsOf(requests')
              /\ RejectedStep(a) => requests' = requests
              /\ ~IsApproving(approving', a)
              /\ ((\A c \in Ids : inflight'[c] = 0) =>
                     \A c \in Ids : ~IsApproving(approving', c))]_vars

\* the call for a resolved while the call for another id b was outstanding
C3_Witness ==
    \E a \in Ids, b \in Ids :
        /\ a # b
        /\ lastOp.name = "assignResolved" /\ lastOp.id = a
        /\ a \in IdsOf(OrEmpty(loadResult.data)) /\ a \notin IdsOf(requests)
        /\ ~IsApproving(approving, a)
        /\ inflight[b] = 1 /\ IsApproving(approving, b) /\ b \in IdsOf(requests)

(* C4: the busy flag of an id is set exactly while an assign call for that  *)
(* id is outstanding.  Stated as the claim states it; the code breaks it.   *)
C4_BusyIffOutstanding ==
    \A id \in Ids : IsApproving(approving, id) <=> inflight[id] > 0

(* C5: when an assign call is rejected the error state becomes the          *)
(* failure's message, or "Approval failed" when it has none, and the entry  *)
(* of the request is still in the collection.  Stated as the claim states   *)
(* it; the code breaks it.                                                  *)
C5_FailureSurfacedEntryKept ==
    [][\A id \in Ids :
          RejectedStep(id) =>
              /\ error' = Surfaced(lastOp'.message, "Approval failed")
              /\ id \in IdsOf(requests')]_vars

(* C6: after the fetch was rejected the error state is the failure's        *)
(* message, or "Failed to load requests" when it has none, the loading flag *)
(* is false and the collection is empty.                                    *)
C6_LoadFailure ==
    loadPc = "failed" =>
        /\ error = Surfaced(loadResult.message, "Failed to load requests")
        /\ isLoading = FALSE
        /\ requests = <<>>

\* the fetch was rejected with an error that carries no message
C6_Witness ==
    /\ loadPc = "failed"
    /\ loadResult.message = <<>>
    /\ error = "Failed to load requests"
    /\ ~isLoading
    /\ requests = <<>>

(* C7: right after the fetch resolved, the collection is the fetched array, *)
(* or the empty collection when the payload is absent, and the current page *)
(* is 1.                                                                    *)
C7_LoadReplaces ==
    lastOp.name = "loadResolved" =>
        /\ requests = (IF loadResult.data = <<>> THEN <<>> ELSE loadResult.data[1])
        /\ currentPage = 1

\* the fetch resolved with the longest list and the view holds all of it
C7_Witness ==
    /\ lastOp.name = "loadResolved"
    /\ loadResult.data # <<>>
    /\ Len(requests) = MaxFetch
    /\ requests = loadResult.data[1]
    /\ currentPage = 1

(* C8: the error state is reset to empty when loadRequests starts and when  *)
(* handleApprove issues a call.  Stated as the claim states it; the code    *)
(* breaks it.                                                               *)
C8_ErrorClearedOnAttempt ==
    [][(\/ loadPc = "idle" /\ loadPc' = "awaiting"
        \/ \E id \in Ids : IssuedStep(id)) => error' = ""]_vars

(* C9: a step that changes the search term or the page size leaves the      *)
(* current page at 1.                                                       *)
C9_PageReset ==
    [][(searchTerm' # searchTerm \/ pageSize' # pageSize) => currentPage' = 1]_vars

\* the search term was changed while a later page was the current one
C9_Witness ==
    /\ lastOp.name = "search"
    /\ lastOp.page > 1
    /\ currentPage = 1

RECURSIVE ConcatPages(_, _, _, _, _)
ConcatPages(reqs, term, size, page, last) ==
    IF page > last THEN <<>>
    ELSE displayedRequests(reqs, term, page, size)
             \o ConcatPages(reqs, term, size, page + 1, last)

(* C10: for each page size of the select, totalPages is the least n >= 1    *)
(* with n * pageSize >= filtered count, and the slices of pages             *)
(* 1..totalPages, concatenated, are the filtered collection.                *)
C10_Pagination ==
    \A size \in PageSizes :
        LET f  == filteredRequests(requests, searchTerm)
            tp == totalPages(requests, searchTerm, size)
        IN  /\ tp >= 1
            /\ tp * size >= Len(f)
            /\ tp > 1 => (tp - 1) * size < Len(f)
            /\ ConcatPages(requests, searchTerm, size, 1, tp) = f

\* thirteen requests pass the filter and the second page of twelve is shown
C10_Witness ==
    /\ pageSize = 12
    /\ Len(filteredRequests(requests, searchTerm)) > 12
    /\ currentPage = 2
    /\ Len(displayedRequests(requests, searchTerm, currentPage, pageSize)) = 1

----------------------------------------------------------------------------
(* Vocabulary of the filter property *)

\* the term between its first and its last character that is not a space
Core(term) ==
    LET solid == {i \in 1..Len(term) : term[i] # " "}
    IN  IF solid = {} THEN <<>>
        ELSE LET first == CHOOSE i \in solid : \A j \in solid : i <= j
                 last  == CHOOSE i \in solid : \A j \in solid : j <= i
             IN  [k \in 1..(last - first + 1) |-> term[first + k - 1]]

\* q occurs in text at some position, letters compared without regard to case
Occurs(q, text) ==
    \E at \in 1..(Len(text) - Len(q) + 1) :
        \A j \in 1..Len(q) : LowerChar(text[at + j - 1]) = LowerChar(q[j])

\* an optional field, the empty text when it is absent
Field(v) == IF v = <<>> THEN <<>> ELSE v[1]

Kept(r, term) ==
    \/ Core(term) = <<>>
    \/ Occurs(Core(term), Field(r.lawyerName))
    \/ Occurs(Core(term), Field(r.lawyerEmail))
    \/ Occurs(Core(term), r.caseId)
    \/ Occurs(Core(term), Field(r.lawyerAddress))

(* C11: the filter keeps, in order, exactly the requests for which the      *)
(* trimmed query is empty or occurs, case-insensitively and at any          *)
(* position, in the name, the email, the case id or the address, an absent  *)
(* field counting as empty.                                                 *)
C11_Filter ==
    /\ \A k \in 1..Len(requests) :
          Matches(requests[k], searchTerm) <=> Kept(requests[k], searchTerm)
    /\ filteredRequests(requests, searchTerm) =
          SelectSeq(requests, LAMBDA r : Kept(r, searchTerm))

\* a padded upper-case term that occurs in the middle of the address keeps the
\* requests that have an address and drops the ones that have none
C11_Witness ==
    /\ searchTerm = <<" ", "X", "A", " ">>
    /\ Len(requests) = MaxList
    /\ Len(filteredRequests(requests, searchTerm)) > 0
    /\ Len(filteredRequests(requests, searchTerm)) < Len(requests)
    /\ \A k \in 1..Len(requests) :
          Matches(requests[k], searchTerm) <=> requests[k].lawyerAddress # <<>>

----------------------------------------------------------------------------
\* the state of the row of request id: not in the collection, in it with the
\* busy flag set, in it with the busy flag clear
RowState(reqs, flags, id) ==
    IF id \notin IdsOf(reqs) THEN "removed"
    ELSE IF IsApproving(flags, id) THEN "approving"
    ELSE "idle"

(* C12: once the list is loaded a row changes state only from idle to       *)
(* approving when handleApprove issues its call, from approving to removed  *)
(* when its call resolved, and from approving to idle with an error         *)
(* surfaced when its call was rejected.  Stated as the claim states it; the *)
(* code breaks it.                                                          *)
C12_RowTransitions ==
    [][loadPc = "ok" =>
          \A id \in Ids :
              LET before == RowState(requests, approving, id)
                  after  == RowState(requests', approving', id)
              IN  before # after =>
                      \/ before = "idle" /\ after = "approving" /\ IssuedStep(id)
                      \/ before = "approving" /\ after = "removed" /\ ResolvedStep(id)
                      \/ /\ before = "approving" /\ after = "idle"
                         /\ RejectedStep(id) /\ error' # ""]_vars

----------------------------------------------------------------------------
\* a is b with some entries left out, the others in their order
RECURSIVE IsSubsequence(_, _)
IsSubsequence(a, b) ==
    IF a = <<>> THEN TRUE
    ELSE IF b = <<>> THEN FALSE
    ELSE IF Head(a) = Head(b) THEN IsSubsequence(Tail(a), Tail(b))
    ELSE IsSubsequence(a, Tail(b))

(* C13: the collection is empty until the fetch has resolved; from then on  *)
(* it is a subsequence of the fetched array, and every step leaves a        *)
(* subsequence of what it found, so that no entry is added and a removed    *)
(* entry does not come back.                                                *)
C13_OnlyShrinks ==
    /\ [](loadPc # "ok" => requests = <<>>)
    /\ [](loadPc = "ok" =>
             IsSubsequence(requests,
                 IF loadResult.data = <<>> THEN <<>> ELSE loadResult.data[1]))
    /\ [][loadPc = "ok" => IsSubsequence(requests', requests)]_vars

\* two approvals resolved: the collection is the fetched list without those two
C13_Witness ==
    /\ loadPc = "ok"
    /\ loadResult.data # <<>>
    /\ Len(loadResult.data[1]) = MaxFetch
    /\ Len(requests) = MaxFetch - 2
    /\ IsSubsequence(requests, loadResult.data[1])
    /\ lastOp.name = "assignResolved"
    /\ lastOp.id \notin IdsOf(requests)

----------------------------------------------------------------------------
UniqueIds(reqs) ==
    \A i, j \in 1..Len(reqs) : reqs[i].id = reqs[j].id => i = j

(* C14: in every reachable state no two entries of the request collection   *)
(* have the same id, whatever array the fetch returned.  Stated as the      *)
(* claim states it; the code stores the array as it came (line 51).         *)
C14_UniqueIds == UniqueIds(requests)

----------------------------------------------------------------------------
(* C15: the loading flag is true from construction until the fetch settles, *)
(* false in every state once it has settled, with data or with an error,    *)
(* and, the fetch settling, it is eventually false for good.                *)
C15_LoadingFlag ==
    /\ [](loadPc \in {"idle", "awaiting"} => isLoading)
    /\ [](loadPc \in {"ok", "failed"} => ~isLoading)
    /\ <>[](~isLoading)

\* the fetch failed and the committed render no longer shows the loading branch
C15_Witness ==
    /\ loadPc = "failed"
    /\ ~isLoading
    /\ ~rendered.isLoading
    /\ stale = 0

----------------------------------------------------------------------------
\* the committed render shows the row of id with a guard that lets a click through
CanApprove(id) ==
    /\ ListShown
    /\ ~AlreadyApproving(id)
    /\ \E k \in 1..Len(RenderedRows) : RenderedRows[k].id = id

(* C16: a failed approval can be retried.  The rejected call leaves the     *)
(* busy flag of its id false; once that is committed and no call for the id *)
(* is outstanding, the guard lets handleApprove through for the row, which  *)
(* is still displayed; handleApprove then issues one new call for the id,   *)
(* and that call resolving removes the entry.                               *)
C16_Retryable ==
    /\ [][\A id \in Ids : RejectedStep(id) => ~IsApproving(approving', id)]_vars
    /\ [](\A id \in Ids :
             (/\ stale = 0
              /\ inflight[id] = 0
              /\ ~isLoading
              /\ id \in IdsOf(displayedRequests(requests, searchTerm,
                                                currentPage, pageSize)))
                 => CanApprove(id))
    /\ [][\A id \in Ids :
             (lastOp'.name = "handleApprove" /\ lastOp'.id = id /\ lastOp' # lastOp)
                 => /\ inflight' = [inflight EXCEPT ![id] = @ + 1]
                    /\ issued' = issued + 1]_vars
    /\ [][\A id \in Ids : ResolvedStep(id) => id \notin IdsOf(requests')]_vars

\* the only call made so far, for this id, has failed and left its message;
\* handleApprove has just issued the second call for the same id
C16_Witness ==
    /\ lastOp.name = "handleApprove"
    /\ issued = 2
    /\ DOMAIN approving = {lastOp.id}
    /\ inflight[lastOp.id] = 1
    /\ error = "Approval failed"
    /\ lastOp.id \in IdsOf(requests)

----------------------------------------------------------------------------
(* C17: in every committed render the current page lies within              *)
(* 1..totalPages, and the displayed slice is non-empty whenever the         *)
(* filtered collection is non-empty.  Stated as the claim states it; the    *)
(* code breaks it.                                                          *)
C17_PageInRange ==
    stale = 0 =>
        /\ currentPage \in 1..totalPages(requests, searchTerm, pageSize)
        /\ filteredRequests(requests, searchTerm) # <<>>
               => displayedRequests(requests, searchTerm, currentPage, pageSize) # <<>>

====
